---- MODULE Spec2Model ----
(***************************************************************************)
(* Model of the rhx guardrail core: SafetyEngine (src/src/rhx/safety.py),  *)
(* the order intents (src/src/rhx/models.py) and the order-placement and   *)
(* live-mode commands of the CLI (src/src/rhx/cli.py).                     *)
(*                                                                         *)
(* Representation choices                                                  *)
(*  - Python Optional values: None is the empty set, a present v is {v}.   *)
(*  - Python str values that the code inspects (symbols, trading_window)   *)
(*    are sequences of one-character strings.                              *)
(*  - float amounts are integers (whole dollars); the claims checked here  *)
(*    do not depend on rounding.                                           *)
(*  - the day key strftime("%Y-%m-%d") of the UTC date is the day number   *)
(*    epoch \div 86400 (the formatting is injective on days).              *)
(*  - the local timezone of the host is UTC.                               *)
(***************************************************************************)
EXTENDS Integers, Sequences, FiniteSets, TLC

VARIABLES
    config,          \* SafetyConfig of the loaded configuration
    daily_notional,  \* table daily_notional: set of rows [day, notional]
    live_unlock,     \* single-row store live_unlock: set of rows [token, expires_at]
    issued,          \* number of unlock tokens generated so far (tokens are 1..issued)
    clock,           \* index of the current instant in Timeline
    pc,              \* per CLI process: position in the order-placement command
    live_confirm_token, \* per CLI process: the --live-confirm-token option
    args,            \* per CLI process: the order options of the command
    estimated,       \* per CLI process: check.estimated_notional returned by enforce
    outcome,         \* per CLI process: result of the last command (error or Ok)
    ledgerRead,      \* per CLI process: enforce called today_notional in this command
    placed,          \* per CLI process: place_order was called in this command
    charged,         \* history: per day, the sum of the amounts passed to record_notional
    live_status_out, \* the data of the last `rhx live status`, if any
    live_on_out      \* the error (or Ok) of the last `rhx live on`, if any

vars == <<config, daily_notional, live_unlock, issued, clock, pc,
          live_confirm_token, args, estimated, outcome, ledgerRead, placed, charged,
          live_status_out, live_on_out>>

(***************************************************************************)
(* Optional values and strings                                             *)
(***************************************************************************)
NoneV == {}
Some(v) == {v}
Val(x) == CHOOSE v \in x : TRUE
\* Python truthiness of an Optional[float]: None and 0.0 are falsy
Truthy(x) == x # NoneV /\ Val(x) # 0

Digits == <<"0", "1", "2", "3", "4", "5", "6", "7", "8", "9">>
IsDigit(c) == \E i \in DOMAIN Digits : Digits[i] = c
DigitVal(c) == (CHOOSE i \in DOMAIN Digits : Digits[i] = c) - 1

LowerChars == <<"a", "f", "l", "m", "p", "s", "t">>
UpperChars == <<"A", "F", "L", "M", "P", "S", "T">>
UpperChar(c) ==
    IF \E i \in DOMAIN LowerChars : LowerChars[i] = c
    THEN UpperChars[CHOOSE i \in DOMAIN LowerChars : LowerChars[i] = c]
    ELSE c
\* str.upper()
upper(s) == [i \in DOMAIN s |-> UpperChar(s[i])]

IsSpace(c) == c = " "
\* str.strip()
RECURSIVE lstrip(_)
lstrip(s) == IF s # <<>> /\ IsSpace(Head(s)) THEN lstrip(Tail(s)) ELSE s
RECURSIVE rstrip(_)
rstrip(s) ==
    IF s # <<>> /\ IsSpace(s[Len(s)]) THEN rstrip(SubSeq(s, 1, Len(s) - 1)) ELSE s
strip(s) == rstrip(lstrip(s))

Contains(s, c) == \E i \in DOMAIN s : s[i] = c
FirstIndex(s, c) == CHOOSE i \in DOMAIN s : s[i] = c /\ \A j \in 1..(i - 1) : s[j] # c

(***************************************************************************)
(* Errors (src/src/rhx/errors.py). The message field names which raise     *)
(* statement produced the error.                                           *)
(***************************************************************************)
Ok == [code |-> "OK", message |-> "ok"]
CLIError(code, message) == [code |-> code, message |-> message]

EXIT_CODE_MAP(code) ==
    CASE code = "VALIDATION_ERROR" -> 2
      [] code = "AUTH_REQUIRED" -> 3
      [] code = "MFA_REQUIRED" -> 3
      [] code = "RATE_LIMITED" -> 4
      [] code = "BROKER_REJECTED" -> 5
      [] code = "LIVE_MODE_OFF" -> 6
      [] code = "SAFETY_POLICY_BLOCK" -> 6
      [] code = "INTERNAL_ERROR" -> 10
      [] code = "OK" -> 0
      [] OTHER -> 10

(***************************************************************************)
(* Time                                                                    *)
(***************************************************************************)
SecondsPerDay == 86400
\* The instants (epoch seconds) at which the model observes the system.
\* 09:00:00, 10:00:00 and 10:00:30 of day 0, then 01:00:00, 09:00:00 and
\* 12:00:00 of day 1.
Timeline == <<32400, 36000, 36030, 90000, 118800, 129600>>
MaxClock == 4
Now == Timeline[clock]
\* datetime.now(UTC).strftime("%Y-%m-%d")
UtcDay(t) == t \div SecondsPerDay
\* datetime.now().time(), in seconds since local midnight
LocalTime(t) == t % SecondsPerDay
Today == UtcDay(Now)
Days == {UtcDay(Timeline[i]) : i \in DOMAIN Timeline}

(***************************************************************************)
(* Order intents (src/src/rhx/models.py). One record shape carries the     *)
(* fields of the four variants; a field a variant does not have is NoneV.  *)
(***************************************************************************)
Intent(asset_type, symbol, order_type, quantity, notional_usd, limit_price, stop_price, amount_in, price, legs) ==
    [asset_type |-> asset_type, symbol |-> symbol, order_type |-> order_type,
     quantity |-> quantity, notional_usd |-> notional_usd,
     limit_price |-> limit_price, stop_price |-> stop_price,
     amount_in |-> amount_in, price |-> price, legs |-> legs]

\* OrderIntentStock: the Literal order_type and validate_order
OrderIntentStock_valid(r) ==
    /\ r.order_type \in {"market", "limit", "stop_limit"}
    /\ ~(r.quantity = NoneV /\ r.notional_usd = NoneV)
    /\ ~(r.order_type = "limit" /\ r.limit_price = NoneV)
    /\ ~(r.order_type = "stop_limit" /\ (r.limit_price = NoneV \/ r.stop_price = NoneV))

\* OrderIntentCrypto: the Literal fields and validate_order
OrderIntentCrypto_valid(r) ==
    /\ r.order_type \in {"market", "limit"}
    /\ r.amount_in \in {"quantity", "price"}
    /\ ~(r.amount_in = "quantity" /\ r.quantity = NoneV)
    /\ ~(r.amount_in = "price" /\ r.notional_usd = NoneV)
    /\ ~(r.order_type = "limit" /\ r.limit_price = NoneV)

\* OrderIntentOptionSingle: quantity: int = Field(ge=1) and validate_order
OrderIntentOptionSingle_valid(r) ==
    /\ r.order_type \in {"limit", "stop_limit"}
    /\ r.quantity # NoneV /\ Val(r.quantity) >= 1
    /\ ~(r.order_type = "limit" /\ r.price = NoneV)
    /\ ~(r.order_type = "stop_limit" /\ (r.limit_price = NoneV \/ r.stop_price = NoneV))

\* Mutant of OrderIntentOptionSpread_valid: a spread of one leg is accepted
OrderIntentOptionSpread_valid_one_leg(r) ==
    /\ r.quantity # NoneV /\ Val(r.quantity) >= 1
    /\ r.price # NoneV /\ Val(r.price) > 0
    /\ r.legs >= 1

\* OrderIntentOptionSpread: quantity ge 1, price gt 0, spread min_length 2
OrderIntentOptionSpread_valid(r) ==
    /\ r.quantity # NoneV /\ Val(r.quantity) >= 1
    /\ r.price # NoneV /\ Val(r.price) > 0
    /\ r.legs >= 2

\* Construction of the model object from the command's raw inputs: the
\* intent, or NoneV when pydantic raises ValidationError.
Construct(r) ==
    LET valid == CASE r.asset_type = "stock" -> OrderIntentStock_valid(r)
                   [] r.asset_type = "crypto" -> OrderIntentCrypto_valid(r)
                   [] r.asset_type = "option_single" -> OrderIntentOptionSingle_valid(r)
                   [] r.asset_type = "option_spread" -> OrderIntentOptionSpread_valid(r)
                   [] OTHER -> FALSE
    IN IF valid THEN Some(r) ELSE NoneV

(***************************************************************************)
(* SafetyEngine, the pure part (src/src/rhx/safety.py)                     *)
(***************************************************************************)
\* Mutant of estimate_notional: for a stock the stop price is preferred to
\* the limit price
estimate_notional_stop_first(i) ==
    CASE i.asset_type = "stock" ->
            IF Truthy(i.notional_usd) THEN Val(i.notional_usd)
            ELSE IF Truthy(i.quantity) /\ Truthy(i.stop_price)
                 THEN Val(i.quantity) * Val(i.stop_price)
            ELSE IF Truthy(i.quantity) /\ Truthy(i.limit_price)
                 THEN Val(i.quantity) * Val(i.limit_price)
            ELSE 0
      [] i.asset_type = "crypto" ->
            IF Truthy(i.notional_usd) THEN Val(i.notional_usd)
            ELSE IF Truthy(i.quantity) /\ Truthy(i.limit_price)
                 THEN Val(i.quantity) * Val(i.limit_price)
            ELSE 0
      [] i.asset_type = "option_single" ->
            LET px == IF i.price # NoneV THEN i.price ELSE i.limit_price
            IN (IF Truthy(px) THEN Val(px) ELSE 0) * Val(i.quantity) * 100
      [] i.asset_type = "option_spread" -> Val(i.price) * Val(i.quantity) * 100
      [] OTHER -> 0

\* Mutant of estimate_notional: for a single option the limit price is
\* preferred to the price
estimate_notional_limit_first(i) ==
    CASE i.asset_type = "stock" ->
            IF Truthy(i.notional_usd) THEN Val(i.notional_usd)
            ELSE IF Truthy(i.quantity) /\ Truthy(i.limit_price)
                 THEN Val(i.quantity) * Val(i.limit_price)
            ELSE IF Truthy(i.quantity) /\ Truthy(i.stop_price)
                 THEN Val(i.quantity) * Val(i.stop_price)
            ELSE 0
      [] i.asset_type = "crypto" ->
            IF Truthy(i.notional_usd) THEN Val(i.notional_usd)
            ELSE IF Truthy(i.quantity) /\ Truthy(i.limit_price)
                 THEN Val(i.quantity) * Val(i.limit_price)
            ELSE 0
      [] i.asset_type = "option_single" ->
            LET px == IF i.limit_price # NoneV THEN i.limit_price ELSE i.price
            IN (IF Truthy(px) THEN Val(px) ELSE 0) * Val(i.quantity) * 100
      [] i.asset_type = "option_spread" -> Val(i.price) * Val(i.quantity) * 100
      [] OTHER -> 0

\* Mutant of estimate_notional: the stock estimate follows the order type
estimate_notional_by_order_type(i) ==
    CASE i.asset_type = "stock" ->
            IF Truthy(i.notional_usd) THEN Val(i.notional_usd)
            ELSE IF i.order_type = "limit" /\ Truthy(i.quantity) /\ Truthy(i.limit_price)
                 THEN Val(i.quantity) * Val(i.limit_price)
            ELSE IF i.order_type = "stop_limit" /\ Truthy(i.quantity) /\ Truthy(i.stop_price)
                 THEN Val(i.quantity) * Val(i.stop_price)
            ELSE 0
      [] i.asset_type = "crypto" ->
            IF Truthy(i.notional_usd) THEN Val(i.notional_usd)
            ELSE IF Truthy(i.quantity) /\ Truthy(i.limit_price)
                 THEN Val(i.quantity) * Val(i.limit_price)
            ELSE 0
      [] i.asset_type = "option_single" ->
            LET px == IF i.price # NoneV THEN i.price ELSE i.limit_price
            IN (IF Truthy(px) THEN Val(px) ELSE 0) * Val(i.quantity) * 100
      [] i.asset_type = "option_spread" -> Val(i.price) * Val(i.quantity) * 100
      [] OTHER -> 0

\* SafetyEngine.estimate_notional
estimate_notional(i) ==
    CASE i.asset_type = "stock" ->
            IF Truthy(i.notional_usd) THEN Val(i.notional_usd)
            ELSE IF Truthy(i.quantity) /\ Truthy(i.limit_price)
                 THEN Val(i.quantity) * Val(i.limit_price)
            ELSE IF Truthy(i.quantity) /\ Truthy(i.stop_price)
                 THEN Val(i.quantity) * Val(i.stop_price)
            ELSE 0
      [] i.asset_type = "crypto" ->
            IF Truthy(i.notional_usd) THEN Val(i.notional_usd)
            ELSE IF Truthy(i.quantity) /\ Truthy(i.limit_price)
                 THEN Val(i.quantity) * Val(i.limit_price)
            ELSE 0
      [] i.asset_type = "option_single" ->
            LET px == IF i.price # NoneV THEN i.price ELSE i.limit_price
            IN (IF Truthy(px) THEN Val(px) ELSE 0) * Val(i.quantity) * 100
      [] i.asset_type = "option_spread" -> Val(i.price) * Val(i.quantity) * 100
      [] OTHER -> 0

\* Mutant of require_live_mode: the flag is never checked
require_live_mode_unchecked(cfg) == Ok

\* Mutant of require_live_mode: the condition is inverted
require_live_mode_inverted(cfg) ==
    IF cfg.live_mode THEN CLIError("LIVE_MODE_OFF", "live_mode_off") ELSE Ok

\* SafetyEngine.require_live_mode
require_live_mode(cfg) ==
    IF ~cfg.live_mode THEN CLIError("LIVE_MODE_OFF", "live_mode_off") ELSE Ok

\* Mutant of check_symbol: the block list is consulted only without an allow
\* list
check_symbol_allow_wins(cfg, symbol) ==
    LET normalized == upper(symbol)
        allow == {upper(s) : s \in cfg.allow_symbols}
        block == {upper(s) : s \in cfg.block_symbols}
    IN IF allow # {}
       THEN IF normalized \notin allow
            THEN CLIError("SAFETY_POLICY_BLOCK", "not_in_allow_list")
            ELSE Ok
       ELSE IF normalized \in block
       THEN CLIError("SAFETY_POLICY_BLOCK", "blocked_by_policy")
       ELSE Ok

\* SafetyEngine.check_symbol
check_symbol(cfg, symbol) ==
    LET normalized == upper(symbol)
        allow == {upper(s) : s \in cfg.allow_symbols}
        block == {upper(s) : s \in cfg.block_symbols}
    IN IF allow # {} /\ normalized \notin allow
       THEN CLIError("SAFETY_POLICY_BLOCK", "not_in_allow_list")
       ELSE IF normalized \in block
       THEN CLIError("SAFETY_POLICY_BLOCK", "blocked_by_policy")
       ELSE Ok

\* datetime.strptime(s, "%H:%M").time() in seconds since midnight, or NoneV
\* when strptime raises ValueError. The format's regular expression is
\* (2[0-3]|[0-1]\d|\d):([0-5]\d|\d) and must consume the whole string.
strptime_HM(s) ==
    IF ~Contains(s, ":") THEN NoneV
    ELSE LET k == FirstIndex(s, ":")
             h == SubSeq(s, 1, k - 1)
             m == SubSeq(s, k + 1, Len(s))
             hOk == /\ Len(h) \in {1, 2}
                    /\ \A j \in DOMAIN h : IsDigit(h[j])
                    /\ Len(h) = 2 => \/ DigitVal(h[1]) \in {0, 1}
                                     \/ DigitVal(h[1]) = 2 /\ DigitVal(h[2]) <= 3
             mOk == /\ Len(m) \in {1, 2}
                    /\ \A j \in DOMAIN m : IsDigit(m[j])
                    /\ Len(m) = 2 => DigitVal(m[1]) <= 5
             hv == IF Len(h) = 2 THEN 10 * DigitVal(h[1]) + DigitVal(h[2]) ELSE DigitVal(h[1])
             mv == IF Len(m) = 2 THEN 10 * DigitVal(m[1]) + DigitVal(m[2]) ELSE DigitVal(m[1])
         IN IF hOk /\ mOk THEN Some(hv * 3600 + mv * 60) ELSE NoneV

\* Mutant of check_trading_window: the end of the window is exclusive
check_trading_window_end_exclusive(cfg, t) ==
    IF cfg.trading_window = NoneV \/ Val(cfg.trading_window) = <<>> THEN Ok
    ELSE LET window == strip(Val(cfg.trading_window))
         IN IF ~Contains(window, "-")
            THEN CLIError("VALIDATION_ERROR", "invalid_window_format")
            ELSE LET k == FirstIndex(window, "-")
                     start == strptime_HM(SubSeq(window, 1, k - 1))
                     end == strptime_HM(SubSeq(window, k + 1, Len(window)))
                     now == LocalTime(t)
                 IN IF start = NoneV \/ end = NoneV
                    THEN CLIError("VALIDATION_ERROR", "invalid_window_value")
                    ELSE LET allowed ==
                                 IF Val(start) <= Val(end)
                                 THEN Val(start) <= now /\ now < Val(end)
                                 ELSE now >= Val(start) \/ now < Val(end)
                         IN IF ~allowed
                            THEN CLIError("SAFETY_POLICY_BLOCK", "outside_trading_window")
                            ELSE Ok

\* SafetyEngine.check_trading_window; t is the current epoch second
check_trading_window(cfg, t) ==
    IF cfg.trading_window = NoneV \/ Val(cfg.trading_window) = <<>> THEN Ok
    ELSE LET window == strip(Val(cfg.trading_window))
         IN IF ~Contains(window, "-")
            THEN CLIError("VALIDATION_ERROR", "invalid_window_format")
            ELSE LET k == FirstIndex(window, "-")
                     start == strptime_HM(SubSeq(window, 1, k - 1))
                     end == strptime_HM(SubSeq(window, k + 1, Len(window)))
                     now == LocalTime(t)
                 IN IF start = NoneV \/ end = NoneV
                    THEN CLIError("VALIDATION_ERROR", "invalid_window_value")
                    ELSE LET allowed ==
                                 IF Val(start) <= Val(end)
                                 THEN Val(start) <= now /\ now <= Val(end)
                                 ELSE now >= Val(start) \/ now <= Val(end)
                         IN IF ~allowed
                            THEN CLIError("SAFETY_POLICY_BLOCK", "outside_trading_window")
                            ELSE Ok

(***************************************************************************)
(* The daily_notional table                                                *)
(***************************************************************************)
HasRow(table, day) == \E r \in table : r.day = day
RowOf(table, day) == CHOOSE r \in table : r.day = day

\* Mutant of today_notional: the SELECT has no WHERE day = ? clause
today_notional_any_day(table, day) ==
    IF table # {} THEN (CHOOSE r \in table : TRUE).notional ELSE 0

\* SafetyEngine.today_notional: SELECT notional ... WHERE day = ?; fetchone()
today_notional(table, day) ==
    IF HasRow(table, day) THEN RowOf(table, day).notional ELSE 0

\* Mutant of record_notional: the conflict clause overwrites the stored value
\* (SET notional = excluded.notional)
record_notional_overwrite(table, day, notional) ==
    {r \in table : r.day # day} \cup {[day |-> day, notional |-> notional]}

\* SafetyEngine.record_notional: INSERT ... ON CONFLICT(day) DO UPDATE SET
\* notional = notional + excluded.notional, one statement in one transaction
record_notional(table, day, notional) ==
    IF HasRow(table, day)
    THEN {IF r.day = day THEN [r EXCEPT !.notional = r.notional + notional] ELSE r
          : r \in table}
    ELSE table \cup {[day |-> day, notional |-> notional]}

\* Mutant of order_cap_exceeded: the comparison is not strict
order_cap_exceeded_ge(cfg, est) ==
    cfg.max_order_notional # NoneV /\ est >= Val(cfg.max_order_notional)

\* enforce, the condition of the per-order cap
order_cap_exceeded(cfg, est) ==
    cfg.max_order_notional # NoneV /\ est > Val(cfg.max_order_notional)

\* Mutant of daily_cap_exceeded: the comparison is not strict
daily_cap_exceeded_ge(cfg, table, t, est) ==
    today_notional(table, UtcDay(t)) + est >= Val(cfg.max_daily_notional)

\* enforce, the condition of the per-day cap (evaluated only when
\* max_daily_notional is set)
daily_cap_exceeded(cfg, table, t, est) ==
    today_notional(table, UtcDay(t)) + est > Val(cfg.max_daily_notional)

\* Mutant of enforce: the trading window is checked before the symbol
enforce_window_first(cfg, table, t, i) ==
    LET symErr == check_symbol(cfg, i.symbol)
        winErr == check_trading_window(cfg, t)
        est == estimate_notional(i)
        fail(e, read) == [error |-> e, estimated |-> NoneV, ledger_read |-> read]
    IN IF winErr # Ok THEN fail(winErr, FALSE)
       ELSE IF symErr # Ok THEN fail(symErr, FALSE)
       ELSE IF order_cap_exceeded(cfg, est)
       THEN fail(CLIError("SAFETY_POLICY_BLOCK", "exceeds_max_order_notional"), FALSE)
       ELSE IF cfg.max_daily_notional # NoneV /\ daily_cap_exceeded(cfg, table, t, est)
       THEN fail(CLIError("SAFETY_POLICY_BLOCK", "exceeds_max_daily_notional"), TRUE)
       ELSE [error |-> Ok, estimated |-> Some(est),
             ledger_read |-> cfg.max_daily_notional # NoneV]

\* Mutant of enforce: the live-mode flag is consulted
enforce_live_gated(cfg, table, t, i) ==
    LET symErr == check_symbol(cfg, i.symbol)
        winErr == check_trading_window(cfg, t)
        est == estimate_notional(i)
        fail(e, read) == [error |-> e, estimated |-> NoneV, ledger_read |-> read]
    IN IF require_live_mode(cfg) # Ok THEN fail(require_live_mode(cfg), FALSE)
       ELSE IF symErr # Ok THEN fail(symErr, FALSE)
       ELSE IF winErr # Ok THEN fail(winErr, FALSE)
       ELSE IF order_cap_exceeded(cfg, est)
       THEN fail(CLIError("SAFETY_POLICY_BLOCK", "exceeds_max_order_notional"), FALSE)
       ELSE IF cfg.max_daily_notional # NoneV /\ daily_cap_exceeded(cfg, table, t, est)
       THEN fail(CLIError("SAFETY_POLICY_BLOCK", "exceeds_max_daily_notional"), TRUE)
       ELSE [error |-> Ok, estimated |-> Some(est),
             ledger_read |-> cfg.max_daily_notional # NoneV]

\* SafetyEngine.enforce: the error raised (or Ok), the estimate returned on
\* success, and whether today_notional was called
enforce(cfg, table, t, i) ==
    LET symErr == check_symbol(cfg, i.symbol)
        winErr == check_trading_window(cfg, t)
        est == estimate_notional(i)
        fail(e, read) == [error |-> e, estimated |-> NoneV, ledger_read |-> read]
    IN IF symErr # Ok THEN fail(symErr, FALSE)
       ELSE IF winErr # Ok THEN fail(winErr, FALSE)
       ELSE IF order_cap_exceeded(cfg, est)
       THEN fail(CLIError("SAFETY_POLICY_BLOCK", "exceeds_max_order_notional"), FALSE)
       ELSE IF cfg.max_daily_notional # NoneV /\ daily_cap_exceeded(cfg, table, t, est)
       THEN fail(CLIError("SAFETY_POLICY_BLOCK", "exceeds_max_daily_notional"), TRUE)
       ELSE [error |-> Ok, estimated |-> Some(est),
             ledger_read |-> cfg.max_daily_notional # NoneV]

(***************************************************************************)
(* The live-unlock token store. The methods issue_live_unlock,             *)
(* clear_live_unlock, live_unlock_status and require_live_authorization    *)
(* are called by cli.py and by the tests; their behaviour is taken from    *)
(* the specification (4.4) and from tests/test_safety_engine.py and        *)
(* tests/test_live_mode.py. Tokens are opaque: the k-th generated token is *)
(* the number k.                                                           *)
(***************************************************************************)
\* Mutant of issue_live_unlock: the prior row is kept
issue_live_unlock_keep_prior(store, t, ttl_seconds, fresh) ==
    store \cup {[token |-> fresh, expires_at |-> t + ttl_seconds]}

\* issueUnlock: replaces any prior row with (fresh token, now + ttl)
issue_live_unlock(store, t, ttl_seconds, fresh) ==
    {[token |-> fresh, expires_at |-> t + ttl_seconds]}

\* Mutant of clear_live_unlock: the row is left in place
clear_live_unlock_keep(store) == store

\* clear: deletes the stored row unconditionally
clear_live_unlock(store) == {}

\* Mutant of live_unlock_status: a row is still active at its expires_at
live_unlock_status_le(store, t) ==
    IF store = {} THEN [active |-> FALSE, expires_at |-> NoneV]
    ELSE LET row == CHOOSE r \in store : TRUE
         IN [active |-> t <= row.expires_at, expires_at |-> Some(row.expires_at)]

\* status
live_unlock_status(store, t) ==
    IF store = {} THEN [active |-> FALSE, expires_at |-> NoneV]
    ELSE LET row == CHOOSE r \in store : TRUE
         IN [active |-> t < row.expires_at, expires_at |-> Some(row.expires_at)]

\* requireAuthorization. tests/test_live_mode.py (live mode off, no token
\* supplied, exit code 6 with LIVE_MODE_OFF) fixes that the live-mode flag is
\* checked first, by require_live_mode.
require_live_authorization(cfg, store, t, supplied) ==
    IF require_live_mode(cfg) # Ok THEN require_live_mode(cfg)
    ELSE IF store = {}
    THEN CLIError("SAFETY_POLICY_BLOCK", "no_live_unlock_token")
    ELSE LET row == CHOOSE r \in store : TRUE
         IN IF supplied = NoneV \/ Val(supplied) # row.token
            THEN CLIError("SAFETY_POLICY_BLOCK", "live_token_mismatch")
            ELSE IF t >= row.expires_at
            THEN CLIError("SAFETY_POLICY_BLOCK", "live_token_expired")
            ELSE Ok

(***************************************************************************)
(* Inputs                                                                  *)
(***************************************************************************)
AAPL == <<"A", "A", "P", "L">>
aapl == <<"a", "a", "p", "l">>
TSLA == <<"T", "S", "L", "A">>
msft == <<"m", "s", "f", "t">>
BTCUSD == <<"B", "T", "C", "-", "U", "S", "D">>

\* Raw inputs of the order-placement commands
StockLimit200 ==
    Intent("stock", AAPL, "limit", Some(2), NoneV, Some(100), NoneV, NoneV, NoneV, 0)
StockLimit300 ==
    Intent("stock", aapl, "limit", Some(3), NoneV, Some(100), NoneV, NoneV, NoneV, 0)
StockMarketQty ==
    Intent("stock", TSLA, "market", Some(1), NoneV, NoneV, NoneV, NoneV, NoneV, 0)
StockNegativeQty ==
    Intent("stock", AAPL, "limit", Some(0 - 1), NoneV, Some(100), NoneV, NoneV, NoneV, 0)
StockNoAmount ==
    Intent("stock", AAPL, "market", NoneV, NoneV, NoneV, NoneV, NoneV, NoneV, 0)
OptionSingle200 ==
    Intent("option_single", msft, "limit", Some(2), NoneV, NoneV, NoneV, NoneV, Some(1), 0)
CryptoByPrice200 ==
    Intent("crypto", BTCUSD, "market", NoneV, Some(200), NoneV, NoneV, "price", NoneV, 0)
CreditSpread200 ==
    Intent("option_spread", AAPL, "credit", Some(1), NoneV, NoneV, NoneV, NoneV, Some(2), 2)

DebitSpread200 ==
    Intent("option_spread", AAPL, "debit", Some(1), NoneV, NoneV, NoneV, NoneV, Some(2), 2)

OrderInputs == {StockLimit200, StockLimit300, StockMarketQty, StockNegativeQty,
                StockNoAmount, OptionSingle200}

Window0900to1000 == <<"0", "9", ":", "0", "0", "-", "1", "0", ":", "0", "0">>
Window2300to0200 == <<"2", "3", ":", "0", "0", "-", "0", "2", ":", "0", "0">>
WindowNoDash == <<"b", "a", "d">>
Window1000to0200 == <<"1", "0", ":", "0", "0", "-", "0", "2", ":", "0", "0">>
WindowBadValue == <<"0", "9", ":", "a", "b", "-", "1", "0", ":", "0", "0">>
WindowEmpty == <<>>
TradingWindows == {Window0900to1000, Window2300to0200, Window1000to0200,
                   WindowNoDash, WindowBadValue, WindowEmpty}

SafetyConfig(live_mode, ttl, max_order, max_daily, allow, block, window) ==
    [live_mode |-> live_mode, live_unlock_ttl_seconds |-> ttl,
     max_order_notional |-> max_order, max_daily_notional |-> max_daily,
     allow_symbols |-> allow, block_symbols |-> block, trading_window |-> window]

\* SafetyConfig() with the defaults of config.py
DefaultConfig == SafetyConfig(FALSE, 900, NoneV, NoneV, {}, {}, NoneV)

MaxIssued == 2
MaxLedger == 400
Procs == {"cli1", "cli2"}
SuppliedTokens == {NoneV} \cup {Some(k) : k \in 1..MaxIssued}
TtlArgs == {NoneV, Some(0), Some(3600)}
LongTtl == 2 * SecondsPerDay

(***************************************************************************)
(* State machine                                                           *)
(***************************************************************************)
Pending == [code |-> "PENDING", message |-> "pending"]

Max(a, b) == IF a >= b THEN a ELSE b

\* No command is running
NoCommand ==
    /\ pc = [p \in Procs |-> "idle"]
    /\ live_confirm_token = [p \in Procs |-> NoneV]
    /\ args = [p \in Procs |-> NoneV]
    /\ estimated = [p \in Procs |-> NoneV]
    /\ outcome = [p \in Procs |-> Pending]
    /\ ledgerRead = [p \in Procs |-> FALSE]
    /\ placed = [p \in Procs |-> FALSE]
    /\ live_status_out = NoneV
    /\ live_on_out = NoneV

\* A fresh installation: SafetyEngine.__init__ has created an empty
\* daily_notional table and no unlock token exists.
FreshState ==
    /\ daily_notional = {}
    /\ live_unlock = {}
    /\ issued = 0
    /\ clock = 1
    /\ charged = [d \in Days |-> 0]
    /\ NoCommand

\* SafetyEngine.set_live_mode
set_live_mode(cfg, enabled) == [cfg EXCEPT !.live_mode = enabled]

\* The end of a command: _run_command emits the error (or the result)
Finish(p, err) ==
    /\ pc' = [pc EXCEPT ![p] = "done"]
    /\ outcome' = [outcome EXCEPT ![p] = err]

\* The intent of the running command, once constructed
IntentOf(p) == Val(Construct(Val(args[p])))

\* A CLI process starts an order-placement command with its options. A
\* command starts only while today's total is within MaxLedger of zero,
\* which keeps the ledger finite.
Start(p, tokens, inputs) ==
    /\ pc[p] \in {"idle", "done"}
    /\ today_notional(daily_notional, Today) <= MaxLedger
    /\ today_notional(daily_notional, Today) >= 0 - MaxLedger
    /\ \E token \in tokens, raw \in inputs :
          /\ live_confirm_token' = [live_confirm_token EXCEPT ![p] = token]
          /\ args' = [args EXCEPT ![p] = Some(raw)]
    /\ pc' = [pc EXCEPT ![p] = "auth"]
    /\ outcome' = [outcome EXCEPT ![p] = Pending]
    /\ estimated' = [estimated EXCEPT ![p] = NoneV]
    /\ ledgerRead' = [ledgerRead EXCEPT ![p] = FALSE]
    /\ placed' = [placed EXCEPT ![p] = FALSE]
    /\ UNCHANGED <<config, daily_notional, live_unlock, issued, clock, charged,
                   live_status_out, live_on_out>>

\* Mutant of Authorize: a successful authorization consumes the token
AuthorizeConsuming(p) ==
    /\ pc[p] = "auth"
    /\ LET auth == require_live_authorization(config, live_unlock, Now,
                                              live_confirm_token[p])
       IN /\ IF auth # Ok THEN Finish(p, auth)
             ELSE IF Construct(Val(args[p])) = NoneV
             THEN Finish(p, CLIError("VALIDATION_ERROR", "intent_validation"))
             ELSE pc' = [pc EXCEPT ![p] = "enforce"] /\ UNCHANGED outcome
          /\ live_unlock' = IF auth = Ok THEN {} ELSE live_unlock
    /\ UNCHANGED <<config, daily_notional, issued, clock,
                   live_confirm_token, args, estimated, ledgerRead, placed, charged,
                   live_status_out, live_on_out>>

\* Mutant of Authorize: require_live_authorization is not called
AuthorizeSkipping(p) ==
    /\ pc[p] = "auth"
    /\ IF Construct(Val(args[p])) = NoneV
       THEN Finish(p, CLIError("VALIDATION_ERROR", "intent_validation"))
       ELSE pc' = [pc EXCEPT ![p] = "enforce"] /\ UNCHANGED outcome
    /\ UNCHANGED <<config, daily_notional, live_unlock, issued, clock,
                   live_confirm_token, args, estimated, ledgerRead, placed, charged,
                   live_status_out, live_on_out>>

\* orders ... place, first part of _do: require_live_authorization, then the
\* construction of the intent (a ValidationError becomes VALIDATION_ERROR in
\* _run_command).
Authorize(p) ==
    /\ pc[p] = "auth"
    /\ LET auth == require_live_authorization(config, live_unlock, Now,
                                              live_confirm_token[p])
       IN IF auth # Ok THEN Finish(p, auth)
          ELSE IF Construct(Val(args[p])) = NoneV
          THEN Finish(p, CLIError("VALIDATION_ERROR", "intent_validation"))
          ELSE pc' = [pc EXCEPT ![p] = "enforce"] /\ UNCHANGED outcome
    /\ UNCHANGED <<config, daily_notional, live_unlock, issued, clock,
                   live_confirm_token, args, estimated, ledgerRead, placed, charged,
                   live_status_out, live_on_out>>

\* Mutant of Enforce: a successful enforce charges the ledger itself
EnforceCharging(p) ==
    /\ pc[p] = "enforce"
    /\ LET r == enforce(config, daily_notional, Now, IntentOf(p))
       IN /\ ledgerRead' = [ledgerRead EXCEPT ![p] = r.ledger_read]
          /\ estimated' = [estimated EXCEPT ![p] = r.estimated]
          /\ IF r.error # Ok
             THEN Finish(p, r.error) /\ UNCHANGED daily_notional
             ELSE /\ pc' = [pc EXCEPT ![p] = "submit"]
                  /\ daily_notional' =
                        record_notional(daily_notional, Today, Val(r.estimated))
                  /\ UNCHANGED outcome
    /\ UNCHANGED <<config, live_unlock, issued, clock, live_confirm_token, args,
                   placed, charged,
                   live_status_out, live_on_out>>

\* check = runtime.safety.enforce(intent)
Enforce(p) ==
    /\ pc[p] = "enforce"
    /\ LET r == enforce(config, daily_notional, Now, IntentOf(p))
       IN /\ ledgerRead' = [ledgerRead EXCEPT ![p] = r.ledger_read]
          /\ estimated' = [estimated EXCEPT ![p] = r.estimated]
          /\ IF r.error # Ok THEN Finish(p, r.error)
             ELSE pc' = [pc EXCEPT ![p] = "submit"] /\ UNCHANGED outcome
    /\ UNCHANGED <<config, daily_notional, live_unlock, issued, clock,
                   live_confirm_token, args, placed, charged,
                   live_status_out, live_on_out>>

\* Mutant of Submit: the ledger is charged although place_order raised
SubmitChargingRejected(p) ==
    /\ pc[p] = "submit"
    /\ placed' = [placed EXCEPT ![p] = TRUE]
    /\ \E accepted \in BOOLEAN :
          IF accepted
          THEN /\ pc' = [pc EXCEPT ![p] = "record"]
               /\ UNCHANGED <<outcome, daily_notional>>
          ELSE /\ Finish(p, CLIError("BROKER_REJECTED", "place_order_raised"))
               /\ daily_notional' =
                     record_notional(daily_notional, Today, Val(estimated[p]))
    /\ UNCHANGED <<config, live_unlock, issued, clock,
                   live_confirm_token, args, estimated, ledgerRead, charged,
                   live_status_out, live_on_out>>

\* result = provider.place_order(intent): the broker client returns a result
\* or raises
Submit(p) ==
    /\ pc[p] = "submit"
    /\ placed' = [placed EXCEPT ![p] = TRUE]
    /\ \E accepted \in BOOLEAN :
          IF accepted THEN pc' = [pc EXCEPT ![p] = "record"] /\ UNCHANGED outcome
          ELSE Finish(p, CLIError("BROKER_REJECTED", "place_order_raised"))
    /\ UNCHANGED <<config, daily_notional, live_unlock, issued, clock,
                   live_confirm_token, args, estimated, ledgerRead, charged,
                   live_status_out, live_on_out>>

\* runtime.safety.record_notional(check.estimated_notional)
Record(p) ==
    /\ pc[p] = "record"
    /\ daily_notional' = record_notional(daily_notional, Today, Val(estimated[p]))
    /\ charged' = [charged EXCEPT ![Today] = @ + Val(estimated[p])]
    /\ Finish(p, Ok)
    /\ UNCHANGED <<config, live_unlock, issued, clock, live_confirm_token, args,
                   estimated, ledgerRead, placed,
                   live_status_out, live_on_out>>

LiveOnDeclined == CLIError("VALIDATION_ERROR", "live_mode_not_enabled")

\* Mutant of LiveOn: live mode is switched on before the prompt is answered
LiveOnEager(yesArgs) ==
    /\ \E yes \in yesArgs, confirm \in BOOLEAN, ttl_seconds \in TtlArgs :
          IF ~yes /\ ~confirm
          THEN /\ live_on_out' = Some(LiveOnDeclined)
               /\ config' = set_live_mode(config, TRUE)
               /\ UNCHANGED <<live_unlock, issued>>
          ELSE LET ttl == IF ttl_seconds # NoneV THEN Max(1, Val(ttl_seconds))
                          ELSE config.live_unlock_ttl_seconds
               IN /\ issued < MaxIssued
                  /\ config' = [set_live_mode(config, TRUE)
                                  EXCEPT !.live_unlock_ttl_seconds = ttl]
                  /\ live_unlock' = issue_live_unlock(live_unlock, Now, ttl, issued + 1)
                  /\ issued' = issued + 1
                  /\ live_on_out' = Some(Ok)
    /\ UNCHANGED <<daily_notional, clock, pc, live_confirm_token, args, estimated,
                   outcome, ledgerRead, placed, charged, live_status_out>>

\* rhx live on [--yes] [--ttl-seconds N], --yes drawn from yesArgs; confirm
\* is the operator's answer to the prompt, which is asked only without --yes
LiveOn(yesArgs) ==
    /\ \E yes \in yesArgs, confirm \in BOOLEAN, ttl_seconds \in TtlArgs :
          IF ~yes /\ ~confirm
          THEN /\ live_on_out' = Some(LiveOnDeclined)
               /\ UNCHANGED <<config, live_unlock, issued>>
          ELSE LET ttl == IF ttl_seconds # NoneV THEN Max(1, Val(ttl_seconds))
                          ELSE config.live_unlock_ttl_seconds
               IN /\ issued < MaxIssued
                  /\ config' = [set_live_mode(config, TRUE)
                                  EXCEPT !.live_unlock_ttl_seconds = ttl]
                  /\ live_unlock' = issue_live_unlock(live_unlock, Now, ttl, issued + 1)
                  /\ issued' = issued + 1
                  /\ live_on_out' = Some(Ok)
    /\ UNCHANGED <<daily_notional, clock, pc, live_confirm_token, args, estimated,
                   outcome, ledgerRead, placed, charged, live_status_out>>

\* Mutant of LiveOff: the unlock row is not cleared
LiveOffFlagOnly ==
    /\ config' = set_live_mode(config, FALSE)
    /\ UNCHANGED <<daily_notional, live_unlock, issued, clock, pc, live_confirm_token,
                   args, estimated, outcome, ledgerRead, placed, charged,
                   live_status_out, live_on_out>>

\* rhx live off
LiveOff ==
    /\ config' = set_live_mode(config, FALSE)
    /\ live_unlock' = clear_live_unlock(live_unlock)
    /\ UNCHANGED <<daily_notional, issued, clock, pc, live_confirm_token, args,
                   estimated, outcome, ledgerRead, placed, charged,
                   live_status_out, live_on_out>>

\* engine.set_live_mode(enabled) on its own
SetLiveMode ==
    /\ \E enabled \in BOOLEAN : config' = set_live_mode(config, enabled)
    /\ UNCHANGED <<daily_notional, live_unlock, issued, clock, pc,
                   live_confirm_token, args, estimated, outcome, ledgerRead,
                   placed, charged,
                   live_status_out, live_on_out>>

\* engine.issue_live_unlock(ttl_seconds) on its own
IssueUnlock ==
    /\ issued < MaxIssued
    /\ \E ttl \in {1, 3600} :
          live_unlock' = issue_live_unlock(live_unlock, Now, ttl, issued + 1)
    /\ issued' = issued + 1
    /\ UNCHANGED <<config, daily_notional, clock, pc, live_confirm_token, args,
                   estimated, outcome, ledgerRead, placed, charged,
                   live_status_out, live_on_out>>

\* engine.clear_live_unlock() on its own
ClearUnlock ==
    /\ live_unlock' = clear_live_unlock(live_unlock)
    /\ UNCHANGED <<config, daily_notional, issued, clock, pc, live_confirm_token,
                   args, estimated, outcome, ledgerRead, placed, charged,
                   live_status_out, live_on_out>>

\* rhx live status
LiveStatus ==
    /\ live_status_out' = Some([live_mode |-> config.live_mode,
                                live_unlock |-> live_unlock_status(live_unlock, Now)])
    /\ UNCHANGED <<config, daily_notional, live_unlock, issued, clock, pc,
                   live_confirm_token, args, estimated, outcome, ledgerRead,
                   placed, charged, live_on_out>>

\* Time passes
Tick ==
    /\ clock < MaxClock
    /\ clock' = clock + 1
    /\ UNCHANGED <<config, daily_notional, live_unlock, issued, pc,
                   live_confirm_token, args, estimated, outcome, ledgerRead,
                   placed, charged,
                   live_status_out, live_on_out>>

(***************************************************************************)
(* Specifications                                                          *)
(***************************************************************************)
\* Spec: the CLI on a fresh installation whose configuration sets both
\* caps: the live-mode commands and one order-placement command at a time,
\* of each of the five kinds.
CapsConfig == SafetyConfig(FALSE, 900, Some(200), Some(400), {}, {}, NoneV)

SpecInputs == {StockLimit200, StockNoAmount, CryptoByPrice200, OptionSingle200,
               CreditSpread200, DebitSpread200}

Init == FreshState /\ config = CapsConfig

Next ==
    \/ Tick
    \/ LiveOn({TRUE})
    \/ LiveOff
    \/ Start("cli1", SuppliedTokens, SpecInputs)
    \/ Authorize("cli1")
    \/ Enforce("cli1")
    \/ Submit("cli1")
    \/ Record("cli1")

Spec == Init /\ [][Next]_vars

\* SpecGate: the live-mode gate on a fresh installation with the default
\* configuration: the engine's operations set_live_mode, issue_live_unlock
\* and clear_live_unlock on their own, the live-mode commands, and
\* order-placement commands supplying any token.
GateInputs == {StockMarketQty, StockNoAmount}

InitGate == FreshState /\ config = DefaultConfig

NextGate ==
    \/ Tick
    \/ LiveOn({TRUE})
    \/ LiveOff
    \/ SetLiveMode
    \/ IssueUnlock
    \/ ClearUnlock
    \/ Start("cli1", SuppliedTokens, GateInputs)
    \/ Authorize("cli1")
    \/ Enforce("cli1")
    \/ Submit("cli1")
    \/ Record("cli1")

SpecGate == InitGate /\ [][NextGate]_vars

\* SpecStatus: the engine's gate operations on their own, `rhx live off`,
\* `rhx live status` and order-placement commands of one kind supplying any
\* token, on a fresh installation with the default configuration.
StatusInputs == {StockMarketQty}

NextStatus ==
    \/ Tick
    \/ LiveOff
    \/ LiveStatus
    \/ SetLiveMode
    \/ IssueUnlock
    \/ ClearUnlock
    \/ Start("cli1", SuppliedTokens, StatusInputs)
    \/ Authorize("cli1")
    \/ Enforce("cli1")
    \/ Submit("cli1")
    \/ Record("cli1")

SpecStatus == InitGate /\ [][NextStatus]_vars

\* An armed installation: `rhx live on --yes --ttl-seconds <two days>` has
\* run at the first instant.
ArmedState(cfg) ==
    /\ daily_notional = {}
    /\ live_unlock = issue_live_unlock({}, Timeline[1], LongTtl, 1)
    /\ issued = 1
    /\ clock = 1
    /\ charged = [d \in Days |-> 0]
    /\ NoCommand
    /\ config = [set_live_mode(cfg, TRUE) EXCEPT !.live_unlock_ttl_seconds = LongTtl]

\* SpecPolicy: one CLI process on an armed installation, under every
\* combination of the policy fields.
PolicyConfigs ==
    {SafetyConfig(FALSE, 900, mo, md, al, bl, tw) :
        mo \in {NoneV, Some(200)}, md \in {NoneV, Some(400)},
        al \in {{}, {aapl}}, bl \in {{}, {TSLA, AAPL, msft}},
        tw \in {NoneV} \cup {Some(w) : w \in TradingWindows}}

InitPolicy == \E cfg \in PolicyConfigs : ArmedState(cfg)

NextPolicy ==
    \/ Tick
    \/ Start("cli1", {NoneV, Some(1)}, OrderInputs)
    \/ Authorize("cli1")
    \/ Enforce("cli1")
    \/ Submit("cli1")
    \/ Record("cli1")

SpecPolicy == InitPolicy /\ [][NextPolicy]_vars

\* SpecConc: the CLI processes of Procs run order-placement commands
\* concurrently on an armed installation.
ConcConfigs ==
    {SafetyConfig(FALSE, 900, NoneV, md, {}, {}, NoneV) : md \in {NoneV, Some(400)}}

ConcInputs == {StockLimit200, StockLimit300, StockNegativeQty}

InitConc == \E cfg \in ConcConfigs : ArmedState(cfg)

NextConc ==
    \/ Tick
    \/ \E p \in Procs : Start(p, {Some(1)}, ConcInputs)
    \/ \E p \in Procs : Authorize(p)
    \/ \E p \in Procs : Enforce(p)
    \/ \E p \in Procs : Submit(p)
    \/ \E p \in Procs : Record(p)

SpecConc == InitConc /\ [][NextConc]_vars

\* SpecEstimate: one CLI process on an armed installation without caps,
\* lists or window places orders drawn from every combination of the
\* option values below, so that every intent that can be constructed from
\* them is estimated by enforce.
StockEstimateInputs ==
    {Intent("stock", AAPL, ot, q, n, l, s, NoneV, NoneV, 0) :
        ot \in {"market", "limit", "stop_limit"},
        q \in {NoneV, Some(0), Some(2)}, n \in {NoneV, Some(0), Some(50)},
        l \in {NoneV, Some(0), Some(100)}, s \in {NoneV, Some(150)}}

CryptoEstimateInputs ==
    {Intent("crypto", BTCUSD, ot, q, n, l, NoneV, am, NoneV, 0) :
        ot \in {"market", "limit"}, am \in {"quantity", "price"},
        q \in {NoneV, Some(0), Some(2)}, n \in {NoneV, Some(0), Some(50)},
        l \in {NoneV, Some(0), Some(100)}}

OptionSingleEstimateInputs ==
    {Intent("option_single", msft, ot, q, NoneV, l, s, NoneV, px, 0) :
        ot \in {"limit", "stop_limit"}, q \in {Some(0), Some(1), Some(2)},
        px \in {NoneV, Some(0), Some(1)}, l \in {NoneV, Some(2)},
        s \in {NoneV, Some(3)}}

OptionSpreadEstimateInputs ==
    {Intent("option_spread", AAPL, dir, q, NoneV, NoneV, NoneV, NoneV, px, legs) :
        dir \in {"credit", "debit"}, q \in {Some(0), Some(1), Some(2)},
        px \in {Some(0), Some(2)}, legs \in {1, 2}}

EstimateInputs ==
    StockEstimateInputs \cup CryptoEstimateInputs
       \cup OptionSingleEstimateInputs \cup OptionSpreadEstimateInputs

InitEstimate == ArmedState(DefaultConfig)

NextEstimate ==
    \/ Start("cli1", {Some(1)}, EstimateInputs)
    \/ Authorize("cli1")
    \/ Enforce("cli1")
    \/ Submit("cli1")
    \/ Record("cli1")

SpecEstimate == InitEstimate /\ [][NextEstimate]_vars

\* SpecDeterminism: one CLI process on an armed installation with both caps,
\* under combinations of the symbol lists and the trading window, while the
\* engine's set_live_mode and clear_live_unlock are called on their own.
DeterminismConfigs ==
    {SafetyConfig(FALSE, 900, Some(200), Some(400), al, bl, tw) :
        al \in {{}, {aapl}}, bl \in {{}, {TSLA, AAPL, msft}},
        tw \in {NoneV, Some(Window0900to1000), Some(WindowBadValue)}}

InitDeterminism == \E cfg \in DeterminismConfigs : ArmedState(cfg)

NextDeterminism ==
    \/ Tick
    \/ SetLiveMode
    \/ ClearUnlock
    \/ Start("cli1", {Some(1)}, OrderInputs)
    \/ Authorize("cli1")
    \/ Enforce("cli1")
    \/ Submit("cli1")
    \/ Record("cli1")

SpecDeterminism == InitDeterminism /\ [][NextDeterminism]_vars

\* SpecLive: the live-mode commands, with and without --yes, and
\* order-placement commands of one kind supplying any token, on a fresh
\* installation whose configuration file gives live_unlock_ttl_seconds.
ConfigTtls == {0, 900}

InitLive ==
    \E ttl \in ConfigTtls :
        FreshState /\ config = [DefaultConfig EXCEPT !.live_unlock_ttl_seconds = ttl]

NextLive ==
    \/ Tick
    \/ LiveOn(BOOLEAN)
    \/ LiveOff
    \/ LiveStatus
    \/ Start("cli1", SuppliedTokens, StatusInputs)
    \/ Authorize("cli1")
    \/ Enforce("cli1")
    \/ Submit("cli1")
    \/ Record("cli1")

SpecLive == InitLive /\ [][NextLive]_vars

(***************************************************************************)
(* Properties                                                              *)
(***************************************************************************)
\* The step of process p that runs require_live_authorization, enforce,
\* record_notional
AuthStep(p) == pc[p] = "auth" /\ pc'[p] # "auth"
EnforceStep(p) == pc[p] = "enforce" /\ pc'[p] # "enforce"
RecordStep(p) == pc[p] = "record" /\ pc'[p] # "record"

OrderCapBlock == CLIError("SAFETY_POLICY_BLOCK", "exceeds_max_order_notional")
DailyCapBlock == CLIError("SAFETY_POLICY_BLOCK", "exceeds_max_daily_notional")

\* The checks of enforce that precede the per-order cap pass for p's intent
PolicyChecksPass(p) ==
    /\ check_symbol(config, IntentOf(p).symbol) = Ok
    /\ check_trading_window(config, Now) = Ok

\* The claims' own statement of the two cap conditions
OverOrderCap(p) ==
    /\ config.max_order_notional # NoneV
    /\ estimate_notional(IntentOf(p)) > Val(config.max_order_notional)
OverDailyCap(p) ==
    /\ config.max_daily_notional # NoneV
    /\ today_notional(daily_notional, Today) + estimate_notional(IntentOf(p))
          > Val(config.max_daily_notional)

\* C1: an enforce call that reaches the per-day step (the earlier checks
\* pass) is blocked there, with SAFETY_POLICY_BLOCK, iff max_daily_notional
\* is set and today's total plus the estimate is strictly greater than it; a
\* projected total equal to the cap passes, and enforce is never blocked at
\* that step when max_daily_notional is unset or the projection is within it.
C1_DailyCap ==
    [][\A p \in Procs : EnforceStep(p) =>
          /\ outcome'[p] = DailyCapBlock => OverDailyCap(p)
          /\ (PolicyChecksPass(p) /\ ~OverOrderCap(p) /\ OverDailyCap(p))
                => outcome'[p] = DailyCapBlock
          /\ (PolicyChecksPass(p) /\ ~OverOrderCap(p) /\ ~OverDailyCap(p))
                => pc'[p] = "submit"]_vars

\* C1 witness: a command was blocked at the per-day step although its
\* estimate alone is within the per-order cap that is set
C1_Witness ==
    \E p \in Procs :
        /\ pc[p] = "done" /\ outcome[p] = DailyCapBlock
        /\ config.max_order_notional # NoneV
        /\ estimate_notional(IntentOf(p)) <= Val(config.max_order_notional)

\* C2: an enforce call that reaches the per-order step is blocked there,
\* with SAFETY_POLICY_BLOCK, iff max_order_notional is set and the estimate
\* is strictly greater than it; an estimate equal to the cap passes the
\* step, and with max_order_notional unset no intent is blocked by it.
C2_OrderCap ==
    [][\A p \in Procs : EnforceStep(p) =>
          /\ outcome'[p] = OrderCapBlock => OverOrderCap(p)
          /\ (PolicyChecksPass(p) /\ OverOrderCap(p)) => outcome'[p] = OrderCapBlock
          /\ (PolicyChecksPass(p) /\ ~OverOrderCap(p)) => outcome'[p] # OrderCapBlock
          /\ config.max_order_notional = NoneV => outcome'[p] # OrderCapBlock]_vars

\* C2 witness: a command was blocked at the per-order step
C2_Witness ==
    \E p \in Procs :
        /\ pc[p] = "done" /\ outcome[p] = OrderCapBlock
        /\ estimate_notional(IntentOf(p)) > Val(config.max_order_notional)

\* C3: enforce checks the symbol policy, then the trading window, then the
\* per-order cap, then the per-day cap, and returns the error of the first
\* check that fails; the ledger is read only when the per-day step is reached.
C3_CheckOrder ==
    [][\A p \in Procs : EnforceStep(p) =>
          LET sym == check_symbol(config, IntentOf(p).symbol)
              win == check_trading_window(config, Now)
          IN /\ sym # Ok => outcome'[p] = sym /\ ~ledgerRead'[p]
             /\ (sym = Ok /\ win # Ok) => outcome'[p] = win /\ ~ledgerRead'[p]
             /\ (sym = Ok /\ win = Ok /\ OverOrderCap(p))
                   => outcome'[p] = OrderCapBlock /\ ~ledgerRead'[p]
             /\ (sym = Ok /\ win = Ok /\ ~OverOrderCap(p) /\ OverDailyCap(p))
                   => outcome'[p] = DailyCapBlock /\ ledgerRead'[p]
             /\ (sym = Ok /\ win = Ok /\ ~OverOrderCap(p) /\ ~OverDailyCap(p))
                   => pc'[p] = "submit" /\ outcome'[p] = Pending]_vars

\* C3 witness: a disallowed symbol under a malformed trading_window was
\* rejected with the symbol policy's SAFETY_POLICY_BLOCK
C3_Witness ==
    \E p \in Procs :
        /\ pc[p] = "done"
        /\ outcome[p].code = "SAFETY_POLICY_BLOCK"
        /\ outcome[p].message \in {"not_in_allow_list", "blocked_by_policy"}
        /\ check_trading_window(config, Now).code = "VALIDATION_ERROR"

\* C4: an enforce call, whether it succeeds or fails, leaves every row of
\* daily_notional as it was; the table changes only in a record_notional step.
C4_EnforceReadOnly ==
    [][/\ \A p \in Procs : EnforceStep(p) => daily_notional' = daily_notional
       /\ daily_notional' # daily_notional => \E p \in Procs : RecordStep(p)]_vars

\* C4 witness: enforce blocked a command while today's row exists, and the
\* row still holds what the record calls charged
C4_Witness ==
    \E p \in Procs :
        /\ pc[p] = "done" /\ outcome[p].code = "SAFETY_POLICY_BLOCK" /\ ledgerRead[p]
        /\ HasRow(daily_notional, Today)
        /\ RowOf(daily_notional, Today).notional = charged[Today]

\* C5: under concurrent CLI processes every record_notional step raises the
\* stored notional of the current UTC day by exactly the amount recorded
\* (from 0 when the day has no row) and leaves the other days alone,
\* whatever the other processes read or wrote in between: no update is lost.
C5_NoLostUpdate ==
    [][\A p \in Procs : RecordStep(p) =>
          /\ today_notional(daily_notional', Today)
                = today_notional(daily_notional, Today) + Val(estimated[p])
          /\ \A d \in Days \ {Today} :
                today_notional(daily_notional', d) = today_notional(daily_notional, d)]_vars

\* C5 witness: both processes recorded on the same day and their commands
\* overlapped: the day's total is above the daily cap each enforce passed
C5_Witness ==
    /\ \A p \in Procs : pc[p] = "done" /\ outcome[p] = Ok
    /\ config.max_daily_notional # NoneV
    /\ today_notional(daily_notional, Today) > Val(config.max_daily_notional)
    /\ today_notional(daily_notional, Today) = charged[Today]

\* C6: today_notional returns the sum of the amounts recorded during the
\* current UTC day, and 0 when the day has no row, whatever earlier days hold.
C6_Accumulation ==
    /\ today_notional(daily_notional, Today) = charged[Today]
    /\ ~HasRow(daily_notional, Today) => today_notional(daily_notional, Today) = 0

\* C6 witness: a fresh UTC day without a row, after an earlier day
\* accumulated two records
C6_Witness ==
    /\ ~HasRow(daily_notional, Today)
    /\ today_notional(daily_notional, Today) = 0
    /\ \E d \in Days : /\ d < Today
                       /\ HasRow(daily_notional, d)
                       /\ RowOf(daily_notional, d).notional >= 500

\* C7 (as claimed): daily_notional has at most one row per UTC day and the
\* stored notional of a day never decreases.
C7_OneRowNeverDecreases ==
    [][\A d \in Days :
          /\ Cardinality({r \in daily_notional' : r.day = d}) <= 1
          /\ today_notional(daily_notional', d) >= today_notional(daily_notional, d)]_vars

\* The unlock-token row, when one is stored
TokenRow == CHOOSE r \in live_unlock : TRUE

\* The token supplied by p does not authorize: no row, no token, another
\* token, or the row has expired
TokenDenied(p) ==
    \/ live_unlock = {}
    \/ live_confirm_token[p] = NoneV
    \/ Val(live_confirm_token[p]) # TokenRow.token
    \/ Now >= TokenRow.expires_at

\* p's command was let through by require_live_authorization
Authorized(p) ==
    \/ pc[p] = "enforce"
    \/ outcome[p] = CLIError("VALIDATION_ERROR", "intent_validation")

IssuableTtls == {1, 900, 3600}

\* C9: live_unlock holds at most one row; an issue at time t replaces the
\* row by (fresh token, t + ttl); and a token issued before the most recent
\* one never authorizes again.
C9_SingleSlot ==
    [][/\ Cardinality(live_unlock') <= 1
       /\ issued' # issued =>
             \E r \in live_unlock' :
                 /\ live_unlock' = {r}
                 /\ r.token = issued' /\ r.token \notin 1..issued
                 /\ r.expires_at - Now \in IssuableTtls
       /\ \A p \in Procs :
             (/\ AuthStep(p)
              /\ live_confirm_token[p] # NoneV
              /\ Val(live_confirm_token[p]) < issued)
                => pc'[p] = "done" /\ outcome'[p] # Ok /\ ~Authorized(p)']_vars

\* C9 witness: the first token was refused after a second issue, at an
\* instant at which no token issued so far can have expired
C9_Witness ==
    \E p \in Procs :
        /\ clock = 1 /\ issued = 2 /\ config.live_mode
        /\ live_unlock # {} /\ TokenRow.token = 2
        /\ pc[p] = "done" /\ live_confirm_token[p] = Some(1)
        /\ outcome[p] = CLIError("SAFETY_POLICY_BLOCK", "live_token_mismatch")

ExpectedStatus ==
    IF live_unlock = {}
    THEN [active |-> FALSE, expires_at |-> NoneV]
    ELSE [active |-> Now < TokenRow.expires_at,
          expires_at |-> Some(TokenRow.expires_at)]

\* C12: live_unlock_status depends on the stored row and the current time
\* only: without a row it returns {active: false, expires_at: null}, with a
\* row (token, exp) it returns expires_at = exp and active iff now < exp;
\* `rhx live status` reports it and changes nothing; and the passage of time
\* never removes the row, so an expired row is reported inactive with its
\* expires_at.
C12_Status ==
    /\ [](live_unlock_status(live_unlock, Now) = ExpectedStatus)
    /\ [][/\ live_status_out' # live_status_out =>
                /\ live_status_out' = Some([live_mode |-> config.live_mode,
                                            live_unlock |-> ExpectedStatus])
                /\ live_unlock' = live_unlock
          /\ clock' # clock => live_unlock' = live_unlock]_vars

\* C12 witness: `rhx live status` reported an expired row, still stored, as
\* inactive with its expires_at
C12_Witness ==
    /\ live_unlock # {}
    /\ Now > TokenRow.expires_at
    /\ live_status_out # NoneV
    /\ Val(live_status_out).live_unlock =
          [active |-> FALSE, expires_at |-> Some(TokenRow.expires_at)]

NoStatus == [active |-> FALSE, expires_at |-> NoneV]

FlagOnlyStep ==
    /\ config'.live_mode # config.live_mode
    /\ issued' = issued
    /\ ~(live_unlock # {} /\ live_unlock' = {})

\* C14: the stored unlock row changes only by an issue or a clear:
\* require_live_authorization (passing or failing), enforce with its
\* today_notional, record_notional, live_unlock_status and set_live_mode
\* leave it unchanged, and set_live_mode changes nothing but the flag.
C14_TokenFrame ==
    /\ [](\A enabled \in BOOLEAN :
             set_live_mode(config, enabled) = [config EXCEPT !.live_mode = enabled])
    /\ [][/\ live_unlock' # live_unlock => (issued' = issued + 1 \/ live_unlock' = {})
          /\ \A p \in Procs : (AuthStep(p) \/ EnforceStep(p) \/ RecordStep(p)) =>
                live_unlock' = live_unlock
          /\ live_status_out' # live_status_out => live_unlock' = live_unlock
          /\ FlagOnlyStep =>
                /\ config' = [config EXCEPT !.live_mode = config'.live_mode]
                /\ UNCHANGED <<daily_notional, live_unlock, issued, clock, pc,
                               live_confirm_token, args, estimated, outcome,
                               ledgerRead, placed, charged, live_status_out,
                               live_on_out>>]_vars

\* C14 witness: with live mode switched off on its own after an issue, the
\* row is still the one issued, after a refused authorization and a status
C14_Witness ==
    \E p \in Procs :
        /\ issued = 1 /\ ~config.live_mode
        /\ live_unlock # {} /\ TokenRow.token = 1
        /\ pc[p] = "done" /\ outcome[p].code = "LIVE_MODE_OFF"
        /\ live_status_out # NoneV
        /\ ~Val(live_status_out).live_mode
        /\ Val(live_status_out).live_unlock.expires_at = Some(TokenRow.expires_at)

\* The order of the steps of an order-placement command
CommandFlow ==
    {<<"idle", "auth">>, <<"done", "auth">>, <<"auth", "enforce">>,
     <<"auth", "done">>, <<"enforce", "submit">>, <<"enforce", "done">>,
     <<"submit", "record">>, <<"submit", "done">>, <<"record", "done">>}

\* C15: in an order-placement command record_notional is called at most
\* once, as the last step, after place_order returned, with the estimate
\* enforce returned, which is estimate_notional(intent); the command succeeds
\* only through that step; and when authorization, the construction of the
\* intent, enforce or place_order fails the ledger is unchanged.
C15_RecordAfterSubmit ==
    [][\A p \in Procs :
          /\ pc'[p] # pc[p] => <<pc[p], pc'[p]>> \in CommandFlow
          /\ RecordStep(p) =>
                /\ placed[p] /\ outcome[p] = Pending
                /\ estimated[p] = Some(estimate_notional(IntentOf(p)))
                /\ daily_notional' = record_notional(daily_notional, Today,
                                                     estimate_notional(IntentOf(p)))
                /\ outcome'[p] = Ok
          /\ (pc'[p] # pc[p] /\ ~RecordStep(p)) =>
                /\ daily_notional' = daily_notional
                /\ outcome'[p] # Ok
          /\ (pc[p] = "submit" /\ pc'[p] = "record") => placed'[p]
          /\ (pc'[p] # pc[p] /\ pc[p] \in {"auth", "enforce"}) => ~placed'[p]]_vars

\* C15 witness: a crypto order was enforced, placed and then recorded with
\* its estimate
C15_Witness ==
    \E p \in Procs :
        /\ pc[p] = "done" /\ outcome[p] = Ok /\ placed[p]
        /\ Val(args[p]).asset_type = "crypto"
        /\ estimated[p] = Some(200)
        /\ today_notional(daily_notional, Today) = 200

\* The symbols of the order inputs
PolicySymbols == {AAPL, aapl, TSLA, msft, BTCUSD}

\* C16's statement of the symbol policy
SymbolAllowed(symbol) ==
    /\ \/ config.allow_symbols = {}
       \/ upper(symbol) \in {upper(s) : s \in config.allow_symbols}
    /\ upper(symbol) \notin {upper(s) : s \in config.block_symbols}

SymbolBlocks ==
    {CLIError("SAFETY_POLICY_BLOCK", "not_in_allow_list"),
     CLIError("SAFETY_POLICY_BLOCK", "blocked_by_policy")}

\* C16: check_symbol passes iff (the allow list is empty or holds the symbol)
\* and the block list does not hold it, both compared in upper case, and
\* fails with SAFETY_POLICY_BLOCK otherwise; as step 1 of enforce its
\* failure is the outcome of the command, before any estimate.
C16_SymbolPolicy ==
    /\ [](\A symbol \in PolicySymbols :
             /\ SymbolAllowed(symbol) <=> check_symbol(config, symbol) = Ok
             /\ ~SymbolAllowed(symbol) => check_symbol(config, symbol) \in SymbolBlocks)
    /\ [][\A p \in Procs : EnforceStep(p) =>
             IF SymbolAllowed(IntentOf(p).symbol)
             THEN outcome'[p] \notin SymbolBlocks
             ELSE /\ pc'[p] = "done"
                  /\ outcome'[p] \in SymbolBlocks
                  /\ ~ledgerRead'[p]]_vars

\* C16 witness: a lower-case symbol on the allow list was blocked by its
\* upper-case entry on the block list
C16_Witness ==
    \E p \in Procs :
        /\ pc[p] = "done"
        /\ outcome[p] = CLIError("SAFETY_POLICY_BLOCK", "blocked_by_policy")
        /\ IntentOf(p).symbol = aapl
        /\ aapl \in config.allow_symbols
        /\ AAPL \in config.block_symbols

\* The well-formed windows of the configurations, with their start and end
\* in seconds since midnight
WellFormedWindows == {Window0900to1000, Window2300to0200, Window1000to0200}

WindowStart(w) ==
    CASE w = Window0900to1000 -> 9 * 3600
      [] w = Window2300to0200 -> 23 * 3600
      [] w = Window1000to0200 -> 10 * 3600

WindowEnd(w) ==
    CASE w = Window0900to1000 -> 10 * 3600
      [] w = Window2300to0200 -> 2 * 3600
      [] w = Window1000to0200 -> 2 * 3600

\* C17's statement of the window rule at the local time now
InWindow(w, now) ==
    IF WindowStart(w) <= WindowEnd(w)
    THEN WindowStart(w) <= now /\ now <= WindowEnd(w)
    ELSE now >= WindowStart(w) \/ now <= WindowEnd(w)

WindowErrors ==
    {CLIError("VALIDATION_ERROR", "invalid_window_format"),
     CLIError("VALIDATION_ERROR", "invalid_window_value"),
     CLIError("SAFETY_POLICY_BLOCK", "outside_trading_window")}

\* C17: without a trading window the check passes; with a well-formed
\* window start-end it passes iff start <= now <= end when start <= end, iff
\* now >= start or now <= end when start > end, now being the local
\* wall-clock time, and fails with SAFETY_POLICY_BLOCK otherwise; as step 2
\* of enforce, after a passing symbol check, that is the command's outcome.
C17_TradingWindow ==
    /\ [](/\ config.trading_window = NoneV => check_trading_window(config, Now) = Ok
          /\ \A w \in WellFormedWindows : config.trading_window = Some(w) =>
                check_trading_window(config, Now) =
                   IF InWindow(w, LocalTime(Now)) THEN Ok
                   ELSE CLIError("SAFETY_POLICY_BLOCK", "outside_trading_window"))
    /\ [][\A p \in Procs :
             (/\ EnforceStep(p)
              /\ SymbolAllowed(IntentOf(p).symbol)
              /\ config.trading_window \in
                    {NoneV} \cup {Some(w) : w \in WellFormedWindows}) =>
                IF \/ config.trading_window = NoneV
                   \/ InWindow(Val(config.trading_window), LocalTime(Now))
                THEN outcome'[p] \notin WindowErrors
                ELSE /\ pc'[p] = "done"
                     /\ outcome'[p] =
                           CLIError("SAFETY_POLICY_BLOCK", "outside_trading_window")]_vars

\* C17 witness: an order passed the window 10:00-02:00, which wraps
\* midnight, at 10:00:00 sharp
C17_Witness ==
    \E p \in Procs :
        /\ pc[p] = "submit"
        /\ config.trading_window = Some(Window1000to0200)
        /\ LocalTime(Now) = 10 * 3600

\* The windows of the configurations that are not well-formed
MalformedWindows == TradingWindows \ WellFormedWindows

\* C18 (as claimed): with trading_window set to a string that is not a
\* well-formed HH:MM-HH:MM value, the trading-window check fails with
\* VALIDATION_ERROR at every time of day: an enforce that reaches it never
\* passes it and never reports SAFETY_POLICY_BLOCK.
C18_MalformedWindow ==
    [][\A p \in Procs :
          (/\ EnforceStep(p)
           /\ SymbolAllowed(IntentOf(p).symbol)
           /\ config.trading_window # NoneV
           /\ Val(config.trading_window) \in MalformedWindows) =>
             pc'[p] = "done" /\ outcome'[p].code = "VALIDATION_ERROR"]_vars

\* A field that is present and not zero
Set(x) == x # NoneV /\ Val(x) # 0

\* C19's reference formula: the stock estimate by order type
StockEstimateByType(i) ==
    IF i.notional_usd # NoneV THEN Val(i.notional_usd)
    ELSE IF i.order_type = "limit" THEN Val(i.quantity) * Val(i.limit_price)
    ELSE IF i.order_type = "stop_limit" THEN Val(i.quantity) * Val(i.stop_price)
    ELSE 0

\* The stock estimate by the fields that are present and not zero
StockEstimateByField(i) ==
    IF Set(i.notional_usd) THEN Val(i.notional_usd)
    ELSE IF Set(i.quantity) /\ Set(i.limit_price)
         THEN Val(i.quantity) * Val(i.limit_price)
    ELSE IF Set(i.quantity) /\ Set(i.stop_price)
         THEN Val(i.quantity) * Val(i.stop_price)
    ELSE 0

\* C19 (as claimed): for every valid stock intent the estimate is
\* notional_usd if present, else quantity * limit_price for a limit order,
\* else quantity * stop_price for a stop-limit order, else 0.
C19_StockByOrderType ==
    [][\A p \in Procs :
          (EnforceStep(p) /\ IntentOf(p).asset_type = "stock") =>
             estimated'[p] = Some(StockEstimateByType(IntentOf(p)))]_vars

\* C19 (amended): for every valid stock intent the estimate follows the
\* fields, not the order type: notional_usd if present and not zero, else
\* quantity * limit_price if both are present and not zero, else
\* quantity * stop_price if both are present and not zero, else 0; a market
\* order given only a quantity estimates 0.
C19_StockByField ==
    [][\A p \in Procs :
          (EnforceStep(p) /\ IntentOf(p).asset_type = "stock") =>
             /\ estimated'[p] = Some(StockEstimateByField(IntentOf(p)))
             /\ (/\ IntentOf(p).order_type = "market"
                 /\ IntentOf(p).notional_usd = NoneV
                 /\ IntentOf(p).limit_price = NoneV
                 /\ IntentOf(p).stop_price = NoneV) => estimated'[p] = Some(0)]_vars

\* C19 witness: a stop-limit order of 2 shares with limit price 100 and stop
\* price 150 was estimated at 200 and recorded
C19_Witness ==
    \E p \in Procs :
        /\ pc[p] = "done" /\ outcome[p] = Ok
        /\ IntentOf(p).asset_type = "stock"
        /\ IntentOf(p).order_type = "stop_limit"
        /\ IntentOf(p).notional_usd = NoneV
        /\ IntentOf(p).quantity = Some(2)
        /\ IntentOf(p).limit_price = Some(100)
        /\ IntentOf(p).stop_price = Some(150)
        /\ estimated[p] = Some(200)

\* C20's reference formulas for the other variants
OtherEstimateReference(i) ==
    CASE i.asset_type = "crypto" ->
            IF i.notional_usd # NoneV THEN Val(i.notional_usd)
            ELSE IF i.quantity # NoneV /\ i.limit_price # NoneV
                 THEN Val(i.quantity) * Val(i.limit_price)
            ELSE 0
      [] i.asset_type = "option_single" ->
            (IF i.price # NoneV THEN Val(i.price)
             ELSE IF i.limit_price # NoneV THEN Val(i.limit_price)
             ELSE 0) * Val(i.quantity) * 100
      [] i.asset_type = "option_spread" -> Val(i.price) * Val(i.quantity) * 100

\* The same with a crypto notional_usd of zero treated as absent
OtherEstimateByField(i) ==
    IF i.asset_type = "crypto" /\ i.notional_usd = Some(0)
    THEN OtherEstimateReference([i EXCEPT !.notional_usd = NoneV])
    ELSE OtherEstimateReference(i)

\* C20 (as claimed): for every valid crypto, single-option and spread intent
\* the estimate equals the reference formula.
C20_OtherReference ==
    [][\A p \in Procs :
          (EnforceStep(p) /\ IntentOf(p).asset_type # "stock") =>
             estimated'[p] = Some(OtherEstimateReference(IntentOf(p)))]_vars

\* C20 (amended): for every valid crypto, single-option and spread intent
\* the estimate equals the reference formula, except that a crypto
\* notional_usd of zero counts as absent.
C20_OtherByField ==
    [][\A p \in Procs :
          (EnforceStep(p) /\ IntentOf(p).asset_type # "stock") =>
             estimated'[p] = Some(OtherEstimateByField(IntentOf(p)))]_vars

\* C20 witness: a stop-limit single-option order of 2 contracts with price 1
\* and limit price 2 was estimated at 200 and recorded
C20_Witness ==
    \E p \in Procs :
        /\ pc[p] = "done" /\ outcome[p] = Ok
        /\ IntentOf(p).asset_type = "option_single"
        /\ IntentOf(p).quantity = Some(2)
        /\ IntentOf(p).price = Some(1)
        /\ IntentOf(p).limit_price = Some(2)
        /\ estimated[p] = Some(200)

\* C21 (as claimed): for every intent that construction accepts,
\* estimate_notional returns a number >= 0, so the estimate enforce returns
\* and the amount passed to record_notional are never negative.
C21_EstimateNonNegative ==
    [][\A p \in Procs :
          /\ EnforceStep(p) =>
                /\ estimate_notional(IntentOf(p)) >= 0
                /\ pc'[p] = "submit" => Val(estimated'[p]) >= 0
          /\ RecordStep(p) => Val(estimated[p]) >= 0]_vars

\* C22's statement of the StockIntent invariant
StockIntentInvariant(r) ==
    /\ r.order_type = "market" => (r.quantity = NoneV) # (r.notional_usd = NoneV)
    /\ r.order_type # "market" => r.notional_usd = NoneV
    /\ r.order_type = "limit" => r.limit_price # NoneV
    /\ r.order_type = "stop_limit" => (r.limit_price # NoneV /\ r.stop_price # NoneV)

\* The step of p that constructs the intent: the authorization before it
\* passed
ConstructStep(p) ==
    /\ AuthStep(p)
    /\ require_live_authorization(config, live_unlock, Now, live_confirm_token[p]) = Ok

\* C22 (as claimed): a stock intent is constructed only if the StockIntent
\* invariant holds for its fields; otherwise the construction fails with
\* VALIDATION_ERROR.
C22_StockConstruction ==
    [][\A p \in Procs :
          (ConstructStep(p) /\ Val(args[p]).asset_type = "stock") =>
             /\ pc'[p] = "enforce" => StockIntentInvariant(Val(args[p]))
             /\ ~StockIntentInvariant(Val(args[p])) =>
                   pc'[p] = "done" /\ outcome'[p].code = "VALIDATION_ERROR"]_vars

\* C23's statement of the validity of the other three variants
CryptoIntentValid(r) ==
    /\ r.amount_in = "quantity" => r.quantity # NoneV
    /\ r.amount_in = "price" => r.notional_usd # NoneV
    /\ r.order_type = "limit" => r.limit_price # NoneV

OptionSingleIntentValid(r) ==
    /\ Val(r.quantity) >= 1
    /\ r.order_type = "limit" => r.price # NoneV
    /\ r.order_type = "stop_limit" => (r.limit_price # NoneV /\ r.stop_price # NoneV)

OptionSpreadIntentValid(r) ==
    /\ Val(r.quantity) >= 1
    /\ Val(r.price) > 0
    /\ r.legs >= 2

IntentValid(r) ==
    CASE r.asset_type = "crypto" -> CryptoIntentValid(r)
      [] r.asset_type = "option_single" -> OptionSingleIntentValid(r)
      [] r.asset_type = "option_spread" -> OptionSpreadIntentValid(r)

\* The command of p holds a constructed intent
HasIntent(p) == pc[p] \in {"enforce", "submit", "record"}

\* C23: a crypto, single-option or spread intent exists only if its fields
\* are valid as stated, and a construction from fields that are not fails
\* with VALIDATION_ERROR, exit code 2, before enforce.
C23_ValidByConstruction ==
    /\ [](\A p \in Procs :
             (HasIntent(p) /\ Val(args[p]).asset_type # "stock") =>
                IntentValid(Val(args[p])))
    /\ [][\A p \in Procs :
             (/\ ConstructStep(p)
              /\ Val(args[p]).asset_type # "stock"
              /\ ~IntentValid(Val(args[p]))) =>
                /\ pc'[p] = "done"
                /\ outcome'[p].code = "VALIDATION_ERROR"
                /\ EXIT_CODE_MAP(outcome'[p].code) = 2
                /\ estimated'[p] = NoneV /\ ~placed'[p]]_vars

\* C23 witness: a spread of one leg, with quantity 1 and price 2, failed
\* with VALIDATION_ERROR
C23_Witness ==
    \E p \in Procs :
        /\ pc[p] = "done"
        /\ outcome[p] = CLIError("VALIDATION_ERROR", "intent_validation")
        /\ Val(args[p]).asset_type = "option_spread"
        /\ Val(args[p]).legs = 1
        /\ Val(args[p]).quantity = Some(1)
        /\ Val(args[p]).price = Some(2)

\* A configuration, a ledger and an instant built from nothing but the policy
\* fields, today's total and the local time of day
PolicyOnly(cfg) ==
    SafetyConfig(FALSE, 900, cfg.max_order_notional, cfg.max_daily_notional,
                 cfg.allow_symbols, cfg.block_symbols, cfg.trading_window)
TodayOnly(total) == {[day |-> 0, notional |-> total]}

\* What the enforce call of p's command returned, read from the state after
\* the step
EnforceResult(p) ==
    [error |-> IF pc[p] = "submit" THEN Ok ELSE outcome[p],
     estimated |-> estimated[p], ledger_read |-> ledgerRead[p]]

\* C24: the result of an enforce call is the result of enforce on the
\* intent, the policy fields, the local time of day and today's total alone,
\* whatever live_mode and the unlock store hold; and enforce called again
\* right after the step gives the same result.
C24_Deterministic ==
    [][\A p \in Procs : EnforceStep(p) =>
          /\ EnforceResult(p)' =
                enforce(PolicyOnly(config),
                        TodayOnly(today_notional(daily_notional, Today)),
                        LocalTime(Now), IntentOf(p))
          /\ EnforceResult(p)' =
                enforce(config', daily_notional', Timeline[clock'], IntentOf(p))]_vars

\* C24 witness: an order of 200 for AAPL passed enforce under the allow list
\* {aapl} with live mode off and no unlock row, on the second day, whose
\* total is 200 while the first day holds a row too
C24_Witness ==
    \E p \in Procs :
        /\ pc[p] = "submit" /\ estimated[p] = Some(200)
        /\ ~config.live_mode /\ live_unlock = {}
        /\ config.allow_symbols = {aapl} /\ IntentOf(p).symbol = AAPL
        /\ Today = 1
        /\ today_notional(daily_notional, 1) = 200
        /\ HasRow(daily_notional, 0)

\* C25: in every order-placement command place_order is called only from
\* the position after enforce, which is reached only through an enforce that
\* succeeded for the command's intent, itself reached only through a
\* require_live_authorization that succeeded for the supplied token; the
\* token and the options stay those of the command; and a failure of either
\* step ends the command with that error and without a call of place_order.
C25_GateBeforeBroker ==
    /\ [](\A p \in Procs : placed[p] =>
             /\ pc[p] \in {"record", "done"}
             /\ estimated[p] = Some(estimate_notional(IntentOf(p))))
    /\ [][\A p \in Procs :
             LET auth == require_live_authorization(config, live_unlock, Now,
                                                    live_confirm_token[p])
             IN /\ (pc'[p] = "enforce" /\ pc[p] # "enforce") =>
                      pc[p] = "auth" /\ auth = Ok
                /\ (pc'[p] = "submit" /\ pc[p] # "submit") =>
                      /\ pc[p] = "enforce"
                      /\ enforce(config, daily_notional, Now, IntentOf(p)).error = Ok
                /\ (placed'[p] /\ ~placed[p]) => pc[p] = "submit"
                /\ pc[p] \in {"auth", "enforce", "submit", "record"} =>
                      /\ args'[p] = args[p]
                      /\ live_confirm_token'[p] = live_confirm_token[p]
                /\ (AuthStep(p) /\ auth # Ok) =>
                      pc'[p] = "done" /\ outcome'[p] = auth /\ ~placed'[p]
                /\ (EnforceStep(p)
                      /\ enforce(config, daily_notional, Now, IntentOf(p)).error # Ok) =>
                      /\ pc'[p] = "done" /\ ~placed'[p]
                      /\ outcome'[p] =
                            enforce(config, daily_notional, Now, IntentOf(p)).error]_vars

\* C25 witness: a debit spread was placed, after its token was accepted and
\* enforce returned its estimate
C25_Witness ==
    \E p \in Procs :
        /\ placed[p] /\ pc[p] = "record"
        /\ Val(args[p]).asset_type = "option_spread"
        /\ Val(args[p]).order_type = "debit"
        /\ live_confirm_token[p] # NoneV
        /\ estimated[p] = Some(200)

\* C26 (as claimed): with max_daily_notional set and every order going
\* through enforce, place_order and record_notional, the stored total of the
\* current UTC day never exceeds max_daily_notional, also when the commands
\* of several CLI processes interleave.
C26_DailyCapInvariant ==
    config.max_daily_notional # NoneV =>
       \A d \in Days : today_notional(daily_notional, d) <= Val(config.max_daily_notional)

\* Token k does not authorize in the current state
Refused(k) == require_live_authorization(config, live_unlock, Now, Some(k)) # Ok

\* C27: a step that switches live mode off or removes the unlock row is
\* `rhx live off`, which does both; an issue stores a token different from
\* every token issued before; and from a state in which live mode is off and
\* the row is cleared on, no token issued so far ever authorizes again,
\* neither while live mode stays off nor after a later `rhx live on`.
C27_LiveOff ==
    /\ [][/\ ((config.live_mode /\ ~config'.live_mode)
                \/ (live_unlock # {} /\ live_unlock' = {})) =>
                (~config'.live_mode /\ live_unlock' = {} /\ issued' = issued)
          /\ issued' # issued =>
                /\ config'.live_mode
                /\ \E r \in live_unlock' : live_unlock' = {r} /\ r.token \notin 1..issued
          /\ \A p \in Procs :
                (AuthStep(p) /\ live_confirm_token[p] # NoneV
                   /\ Refused(Val(live_confirm_token[p]))) => pc'[p] = "done"]_vars
    /\ \A k \in 1..MaxIssued :
          []((~config.live_mode /\ live_unlock = {} /\ k <= issued) => [](Refused(k)))

\* C27 witness: after `rhx live off` and a second `rhx live on`, the token
\* of the first was refused while the second is stored and unexpired
C27_Witness ==
    \E p \in Procs :
        /\ issued = 2 /\ config.live_mode
        /\ live_unlock # {} /\ TokenRow.token = 2 /\ Now < TokenRow.expires_at
        /\ pc[p] = "done" /\ live_confirm_token[p] = Some(1)
        /\ outcome[p] = CLIError("SAFETY_POLICY_BLOCK", "live_token_mismatch")
        /\ live_on_out = Some(Ok)

\* Values that are none of the four intent types: a plain object, and an
\* object of another type that carries the fields of a stock order
NonIntentValues ==
    {[asset_type |-> "object"],
     Intent("position", AAPL, "market", Some(2), Some(50), Some(100), Some(12),
            NoneV, NoneV, 0)}

\* Stock values with a quantity and a stop price, no notional_usd and no
\* limit_price, of every order type
StopOnlyStocks ==
    {Intent("stock", AAPL, ot, Some(q), NoneV, NoneV, Some(s), NoneV, NoneV, 0) :
        ot \in {"market", "limit", "stop_limit"}, q \in {0, 2}, s \in {0, 12}}

\* C28: for a stock intent without notional_usd and limit_price but with
\* quantity and stop_price, estimate_notional returns quantity * stop_price
\* whatever the order type (24 for a market order of 2 at stop price 12), and
\* that is the estimate enforce returns for such an order; for a value that
\* is none of the four intent types estimate_notional returns 0.
C28_StopPriceAndOther ==
    /\ [](/\ \A i \in StopOnlyStocks :
                estimate_notional(i) = Val(i.quantity) * Val(i.stop_price)
          /\ estimate_notional(Intent("stock", AAPL, "market", Some(2), NoneV, NoneV,
                                      Some(12), NoneV, NoneV, 0)) = 24
          /\ \A v \in NonIntentValues : estimate_notional(v) = 0)
    /\ [][\A p \in Procs :
             (/\ EnforceStep(p)
              /\ IntentOf(p).asset_type = "stock"
              /\ IntentOf(p).notional_usd = NoneV
              /\ IntentOf(p).limit_price = NoneV
              /\ IntentOf(p).quantity # NoneV
              /\ IntentOf(p).stop_price # NoneV) =>
                estimated'[p] =
                   Some(Val(IntentOf(p).quantity) * Val(IntentOf(p).stop_price))]_vars

\* C28 witness: a market order of 2 shares with stop price 150 and nothing
\* else was estimated at 300 and recorded
C28_Witness ==
    \E p \in Procs :
        /\ pc[p] = "done" /\ outcome[p] = Ok
        /\ IntentOf(p).asset_type = "stock"
        /\ IntentOf(p).order_type = "market"
        /\ IntentOf(p).notional_usd = NoneV
        /\ IntentOf(p).limit_price = NoneV
        /\ IntentOf(p).quantity = Some(2)
        /\ IntentOf(p).stop_price = Some(150)
        /\ estimated[p] = Some(300)
        /\ today_notional(daily_notional, Today) >= 300

\* C29: a `rhx live on` that the operator declines fails with
\* VALIDATION_ERROR, exit code 2, and changes nothing else: live_mode and the
\* rest of the configuration, the unlock row and the number of tokens issued
\* are as before; live mode is switched on only by a `rhx live on` that
\* succeeds and issues a token.
C29_Declined ==
    [][/\ live_on_out' # live_on_out => live_on_out' \in {Some(Ok), Some(LiveOnDeclined)}
       /\ (live_on_out' # live_on_out /\ live_on_out' = Some(LiveOnDeclined)) =>
             /\ Val(live_on_out').code = "VALIDATION_ERROR"
             /\ EXIT_CODE_MAP(Val(live_on_out').code) = 2
             /\ UNCHANGED <<config, live_unlock, issued, daily_notional, clock, pc,
                            live_confirm_token, args, estimated, outcome,
                            ledgerRead, placed, charged, live_status_out>>
       /\ (~config.live_mode /\ config'.live_mode) =>
             live_on_out' = Some(Ok) /\ issued' = issued + 1]_vars

\* C29 witness: after a `rhx live on` that armed the session, a declined one
\* left live mode on and the first token stored, which then authorized an
\* order
C29_Witness ==
    \E p \in Procs :
        /\ live_on_out = Some(LiveOnDeclined)
        /\ config.live_mode /\ issued = 1
        /\ live_unlock # {} /\ TokenRow.token = 1
        /\ pc[p] = "enforce" /\ live_confirm_token[p] = Some(1)

\* C30 (as claimed): every `rhx live on` that succeeds switches live mode on
\* and issues the token with a time-to-live of at least 1 second, with
\* --ttl-seconds and with the configuration's live_unlock_ttl_seconds alike:
\* expires_at is after the time of the issue and live_unlock_status is active
\* right after the command.
C30_LiveOnArms ==
    [][(live_on_out' = Some(Ok) /\ issued' # issued) =>
          /\ config'.live_mode
          /\ config'.live_unlock_ttl_seconds >= 1
          /\ \E r \in live_unlock' :
                /\ live_unlock' = {r}
                /\ r.expires_at = Now + config'.live_unlock_ttl_seconds
                /\ r.expires_at > Now
          /\ live_unlock_status(live_unlock', Timeline[clock']).active]_vars

====
